---- MODULE Spec2Model ----
(***************************************************************************)
(* A model of src/app.py: the LINE webhook (callback), the image and text  *)
(* handlers, the error notification threads and the process-wide buffers.  *)
(* A text is the run-length encoding of its Unicode code points: a         *)
(* sequence of runs [c |-> code point, n |-> repetitions >= 1] in which    *)
(* neighbouring runs differ in c. Every Python str has exactly one such    *)
(* encoding, so equal texts are equal values, and len(), slicing, + and    *)
(* strip() below are computed exactly, character for character.            *)
(***************************************************************************)
EXTENDS Integers, Sequences, FiniteSets, TLC

\* ------------------------------------------------------------------ bounds
\* Requests the fully nondeterministic specification (Spec) lets in.
MaxRequests == 1
\* Requests the scripted long run (SpecLong) lets in: enough to overflow
\* response_history (50), log_storage (100) and image_cache (50).
LongRequests == 90

\* ------------------------------------------------------- program constants
LogMaxLen == 100
HistoryMaxLen == 50
ImageCacheMax == 50
LengthLimit == 5000
TruncatedKeepLength == 4900

\* ------------------------------------------------------ Python primitives
None == <<>>
Some(x) == <<x>>

\* c repeated n times.
Run(c, n) == IF n > 0 THEN <<[c |-> c, n |-> n]>> ELSE <<>>

\* a + b
Concat(a, b) ==
  IF a = <<>> THEN b
  ELSE IF b = <<>> THEN a
  ELSE IF a[Len(a)].c = b[1].c
       THEN SubSeq(a, 1, Len(a) - 1)
              \o <<[c |-> b[1].c, n |-> a[Len(a)].n + b[1].n]>> \o Tail(b)
       ELSE a \o b

\* The text with the given code points.
RECURSIVE Lit(_)
Lit(codes) ==
  IF codes = <<>> THEN <<>>
  ELSE IF Len(codes) = 1 THEN Run(codes[1], 1)
  ELSE LET h == Len(codes) \div 2
       IN  Concat(Lit(SubSeq(codes, 1, h)), Lit(SubSeq(codes, h + 1, Len(codes))))

\* len(s)
RECURSIVE StrLen(_)
StrLen(s) ==
  IF s = <<>> THEN 0
  ELSE IF Len(s) = 1 THEN s[1].n
  ELSE LET h == Len(s) \div 2
       IN  StrLen(SubSeq(s, 1, h)) + StrLen(SubSeq(s, h + 1, Len(s)))

\* The number of leading runs of s that lie wholly within its first k
\* characters.
WholeRuns(s, k) ==
  CHOOSE m \in 0 .. Len(s) :
    /\ StrLen(SubSeq(s, 1, m)) <= k
    /\ m < Len(s) => StrLen(SubSeq(s, 1, m + 1)) > k

\* s[:k]
Prefix(s, k) ==
  IF k <= 0 THEN <<>>
  ELSE LET m == WholeRuns(s, k)
       IN  IF m = Len(s) THEN s
           ELSE SubSeq(s, 1, m) \o Run(s[m + 1].c, k - StrLen(SubSeq(s, 1, m)))

\* str.isspace() of one code point.
IsSpace(c) ==
  c \in ({9, 10, 11, 12, 13, 28, 29, 30, 31, 32, 133, 160, 5760, 8232, 8233,
          8239, 8287, 12288} \cup (8192..8202))

\* str.strip(): drop leading and trailing whitespace.
Strip(s) ==
  LET keep == {i \in DOMAIN s : ~IsSpace(s[i].c)}
  IN  IF keep = {} THEN <<>>
      ELSE SubSeq(s, CHOOSE i \in keep : \A j \in keep : i <= j,
                     CHOOSE i \in keep : \A j \in keep : i >= j)

\* DequeAppend that drops the new item when the deque is full.
DequeAppend_DropNewest(q, x, n) ==
  IF Len(q) >= n THEN q ELSE Append(q, x)

\* deque(maxlen=n).append(x): a full deque drops its leftmost item.
DequeAppend(q, x, n) ==
  IF Len(q) >= n THEN Append(Tail(q), x) ELSE Append(q, x)

RECURSIVE DequeExtend(_, _, _)
DequeExtend(q, xs, n) ==
  IF xs = <<>> THEN q
  ELSE DequeExtend(DequeAppend(q, Head(xs), n), Tail(xs), n)

\* -------------------------------------------------------------- fixed texts
\* "\n\n（文字数制限のため省略されました。続きが必要な場合は、もう一度画像を送信してください）"
TruncationSuffix ==
  Lit(<<10, 10, 65288, 25991, 23383, 25968, 21046, 38480, 12398, 12383, 12417,
    30465, 30053, 12373, 12428, 12414, 12375, 12383, 12290, 32154, 12365,
    12364, 24517, 35201, 12394, 22580, 21512, 12399, 12289, 12418, 12358,
    19968, 24230, 30011, 20687, 12434, 36865, 20449, 12375, 12390, 12367,
    12384, 12373, 12356, 65289>>)

\* "画像の取得に失敗しました。もう一度送信してください。"
FetchFailedText ==
  Lit(<<30011, 20687, 12398, 21462, 24471, 12395, 22833, 25943, 12375, 12414,
    12375, 12383, 12290, 12418, 12358, 19968, 24230, 36865, 20449, 12375,
    12390, 12367, 12384, 12373, 12356, 12290>>)

\* "画像の処理に失敗しました。もう一度送信してください。"
EncodeFailedText ==
  Lit(<<30011, 20687, 12398, 20966, 29702, 12395, 22833, 25943, 12375, 12414,
    12375, 12383, 12290, 12418, 12358, 19968, 24230, 36865, 20449, 12375,
    12390, 12367, 12384, 12373, 12356, 12290>>)

\* "申し訳ありません。画像の解析に失敗しました。 ... もう一度送信してください！"
ModelFailedText ==
  Lit(<<30003, 12375, 35379, 12354, 12426, 12414, 12379, 12435, 12290, 30011,
    20687, 12398, 35299, 26512, 12395, 22833, 25943, 12375, 12414, 12375,
    12383, 12290, 10, 10, 20197, 19979, 12434, 12362, 35430, 12375, 12367,
    12384, 12373, 12356, 65306, 10, 12539, 30011, 20687, 12434, 12424, 12426,
    39854, 26126, 12395, 25774, 24433, 12377, 12427, 10, 12539, 29031, 26126,
    12434, 26126, 12427, 12367, 12377, 12427, 10, 12539, 21839, 38988, 20840,
    20307, 12364, 20889, 12427, 12424, 12358, 12395, 25774, 24433, 12377,
    12427, 10, 12539, 25163, 26360, 12365, 12398, 22580, 21512, 12399, 28611,
    12367, 12289, 12399, 12387, 12365, 12426, 12392, 26360, 12367, 10, 10,
    12418, 12358, 19968, 24230, 36865, 20449, 12375, 12390, 12367, 12384,
    12373, 12356, 65281>>)

\* The help text of handle_text ("【勉強サポートBotの使い方】 ...").
HelpText ==
  Lit(<<12304, 21193, 24375, 12469, 12509, 12540, 12488, 66, 111, 116, 12398,
    20351, 12356, 26041, 12305, 10, 10, 9733, 32, 25968, 23398, 12420, 33521,
    35486, 12398, 21839, 38988, 12398, 20889, 30495, 12434, 36865, 12387,
    12390, 12367, 12384, 12373, 12356, 65281, 10, 10, 40, 49, 41, 32, 21839,
    38988, 12434, 25774, 24433, 10, 12539, 21839, 38988, 20840, 20307, 12364,
    20889, 12427, 12424, 12358, 12395, 10, 12539, 26126, 12427, 12356, 22580,
    25152, 12391, 25774, 24433, 10, 12539, 25991, 23383, 12364, 12399, 12387,
    12365, 12426, 35211, 12360, 12427, 12424, 12358, 12395, 10, 10, 40, 50,
    41, 32, 30011, 20687, 12434, 36865, 20449, 10, 12539, 12371, 12398, 12488,
    12540, 12463, 12395, 30011, 20687, 12434, 36865, 12427, 12384, 12369,
    65281, 10, 10, 40, 51, 41, 32, 35299, 35500, 12434, 30906, 35469, 10,
    12539, 21839, 38988, 12398, 35299, 12365, 26041, 12434, 27573, 38542,
    30340, 12395, 35500, 26126, 10, 12539, 37325, 35201, 12394, 12509, 12452,
    12531, 12488, 12434, 35299, 35500, 10, 12539, 33258, 20998, 12391, 35299,
    12369, 12427, 12424, 12358, 12395, 12469, 12509, 12540, 12488, 10, 10,
    12304, 23550, 24540, 31185, 30446, 12305, 10, 12539, 25968, 23398, 65288,
    20013, 23398, 12316, 39640, 26657, 50, 24180, 12524, 12505, 12523, 65289,
    10, 12539, 33521, 35486, 65288, 25991, 27861, 12539, 35501, 35299, 12539,
    35486, 24409, 12394, 12393, 65289, 10>>)

\* "問題の画像を送信してください。 ... 「使い方」と送信してください。"
OtherText ==
  Lit(<<21839, 38988, 12398, 30011, 20687, 12434, 36865, 20449, 12375, 12390,
    12367, 12384, 12373, 12356, 12290, 25968, 23398, 12420, 33521, 35486,
    12398, 21839, 38988, 12434, 35299, 35500, 12375, 12414, 12377, 65281, 10,
    10, 20351, 12356, 26041, 12434, 30693, 12426, 12383, 12356, 22580, 21512,
    12399, 12300, 20351, 12356, 26041, 12301, 12392, 36865, 20449, 12375,
    12390, 12367, 12384, 12373, 12356, 12290>>)

\* AdjustLength with the check made against 4900 instead of 5000.
AdjustLength_CheckKeep(text) ==
  IF StrLen(text) > TruncatedKeepLength
  THEN Concat(Prefix(text, TruncatedKeepLength), TruncationSuffix)
  ELSE text

\* AdjustLength keeping the first 5000 characters instead of 4900.
AdjustLength_KeepLimit(text) ==
  IF StrLen(text) > LengthLimit
  THEN Concat(Prefix(text, LengthLimit), TruncationSuffix)
  ELSE text

\* AdjustLength without the length check.
AdjustLength_NoCheck(text) == text

\* ------------------------------------------------------------ handle_image
\* Lines 298-299: the length check and adjustment of explanation_text.
AdjustLength(text) ==
  IF StrLen(text) > LengthLimit
  THEN Concat(Prefix(text, TruncatedKeepLength), TruncationSuffix)
  ELSE text

\* Line 300: the length the truncation warning writes. explanation_text has
\* already been reassigned on line 299 when len() is taken.
WarnedLength(text) == StrLen(AdjustLength(text))

\* The dict image_cache as its items in insertion order.
CacheKeys(cache) == {cache[i].key : i \in DOMAIN cache}

\* image_cache[key] = value: a present key keeps its position.
CachePut(cache, key, value) ==
  IF key \in CacheKeys(cache)
  THEN [i \in DOMAIN cache |->
          IF cache[i].key = key THEN [key |-> key, value |-> value]
          ELSE cache[i]]
  ELSE Append(cache, [key |-> key, value |-> value])

\* save_image_to_cache that never removes an image.
SaveImageToCache_NoEvict(cache, key, value) == CachePut(cache, key, value)

\* save_image_to_cache that removes the last key instead of the first.
SaveImageToCache_EvictLast(cache, key, value) ==
  LET c == CachePut(cache, key, value)
  IN  IF Len(c) > ImageCacheMax THEN SubSeq(c, 1, Len(c) - 1) ELSE c

\* save_image_to_cache: store, then drop the first key when over 50.
SaveImageToCache(cache, key, value) ==
  LET c == CachePut(cache, key, value)
  IN  IF Len(c) > ImageCacheMax THEN Tail(c) ELSE c

\* ------------------------------------------------------------ environment
Workers == {"w1", "w2"}
Users == {"u1"}
ErrorTypes == {"signature", "callback", "fetch", "encode", "model"}

\* "a"*2000 + "b"*2900 + "c"*k: the first 4900 characters hold no "c".
Letters(k) == Concat(Run(97, 2000), Concat(Run(98, 2900), Run(99, k)))

\* message.content values the model call returns in the model:
\* " \na b \u3000\n", and texts of 5000, 5001 and 6000 characters once
\* stripped.
ShortContent == Lit(<<32, 10, 97, 32, 98, 32, 12288, 10>>)
LimitContent == Concat(Run(10, 1), Concat(Letters(100), Run(32, 2)))
OverContent == Concat(Letters(100), Run(100, 1))
LongContent == Concat(Letters(100), Concat(Run(100, 1000), Run(10, 1)))
Contents == {ShortContent, LimitContent, OverContent, LongContent}

\* What client.chat.completions.create(...).choices[0].message.content gives:
\* None when the call (or the access to its result) raises.
ModelResults == {None} \cup {Some(c) : c \in Contents}

VARIABLES
  stats,             \* the dict stats
  log_storage,       \* deque(maxlen=100) of log entries
  response_history,  \* deque(maxlen=50) of history entries
  image_cache,       \* dict image_id -> image bytes, in insertion order
  slack_url,         \* SLACK_WEBHOOK_URL is set
  now,               \* datetime.now(), one tick per webhook request
  pc,                \* where each request worker stands
  loc,               \* the locals of callback / handle_image / handle_text
  pending,           \* notification threads started and not yet run
  log_appended,      \* every entry ever appended to log_storage
  hist_appended,     \* every entry ever appended to response_history
  phase              \* offset of the scripted run into Scenarios

vars == <<stats, log_storage, response_history, image_cache, slack_url, now,
          pc, loc, pending, log_appended, hist_appended, phase>>

NoEntry ==
  [ref |-> 0, id |-> None, timestamp |-> 0, user_id |-> "", type |-> "",
   message |-> "", image_id |-> None, response |-> None, error |-> None,
   timed |-> FALSE]

IdleLocals ==
  [req |-> 0, kind |-> "none", user_id |-> "", message |-> "",
   entry |-> NoEntry, image_data |-> None, content |-> None,
   explanation_text |-> None, calls |-> <<>>, sent |-> <<>>,
   failed |-> <<>>, result |-> "none", loaded |-> 0, oldest_key |-> None]

Start ==
  /\ stats = [total_requests |-> 0, image_requests |-> 0, text_requests |-> 0,
              errors |-> 0, last_request |-> None, error_types |-> <<>>]
  /\ log_storage = <<>>
  /\ response_history = <<>>
  /\ image_cache = <<>>
  /\ slack_url \in BOOLEAN
  /\ now = 0
  /\ pc = [p \in Workers |-> "idle"]
  /\ loc = [p \in Workers |-> IdleLocals]
  /\ pending = [t \in ErrorTypes |-> 0]
  /\ log_appended = <<>>
  /\ hist_appended = <<>>

\* ------------------------------------------------------------------ logging
\* MemoryLogHandler.emit: one record of log_storage.
LogEntry(level, message, value) ==
  [timestamp |-> now, level |-> level, message |-> message, value |-> value]

\* logger.info / warning / error calls, in order, through MemoryLogHandler.
Emit(entries) ==
  /\ log_storage' = DequeExtend(log_storage, entries, LogMaxLen)
  /\ log_appended' = log_appended \o entries

\* history_entry is one dict object: a store into it after it was appended
\* shows in response_history too.
HistSet(h, e) ==
  [i \in DOMAIN h |-> IF h[i].ref = e.ref THEN e ELSE h[i]]

\* response_history.append(history_entry)
HistAppend(e) ==
  /\ response_history' = DequeAppend(HistSet(response_history, e), e, HistoryMaxLen)
  /\ hist_appended' = Append(HistSet(hist_appended, e), e)

\* notify_error_async: start a daemon thread for error_type.
Started(t) == [pending EXCEPT ![t] = @ + 1]

PendingCount ==
  pending["signature"] + pending["callback"] + pending["fetch"]
    + pending["encode"] + pending["model"]

\* ---------------------------------------------------------------- callback
\* Lines 144-152: a webhook request arrives and is counted; handler.handle
\* is entered. kind is what the body and signature make of the request.
Callback(p, kind, user, message, max) ==
  /\ pc[p] = "idle"
  /\ now < max
  /\ now' = now + 1
  /\ stats' = [stats EXCEPT !.total_requests = @ + 1,
                            !.last_request = Some(now')]
  /\ loc' = [loc EXCEPT ![p] =
               [IdleLocals EXCEPT !.req = now', !.kind = kind,
                                  !.user_id = user, !.message = message,
                                  !.result = "running"]]
  /\ pc' = [pc EXCEPT ![p] = "handle"]
  /\ UNCHANGED <<log_storage, response_history, image_cache, slack_url,
                 pending, log_appended, hist_appended, phase>>

\* Lines 153-157: the signature does not verify; abort(400).
InvalidSignature(p) ==
  /\ pc[p] = "handle"
  /\ loc[p].kind = "badsig"
  /\ Emit(<<LogEntry("ERROR", "invalid_signature", 0)>>)
  /\ stats' = [stats EXCEPT !.errors = @ + 1]
  /\ pending' = Started("signature")
  /\ loc' = [loc EXCEPT ![p].result = "400"]
  /\ pc' = [pc EXCEPT ![p] = "idle"]
  /\ UNCHANGED <<response_history, image_cache, slack_url, now,
                 hist_appended, phase>>

\* Lines 158-163: an exception left the handler; it is logged (message and
\* traceback), counted and notified, and the request ends with abort(500).
CallbackErrorLogs ==
  <<LogEntry("ERROR", "callback_error", 0), LogEntry("ERROR", "traceback", 0)>>

\* reply_message(reply_token, TextSendMessage(text)) as the last statement of
\* a handler: on success the handler returns and callback answers OK; when it
\* raises nothing in the handler catches it and callback's except runs
\* (result "ok" is line 165, return 'OK'; "500" is abort(500)).
\* logs are the records written before the call's outcome is known to
\* callback (after a successful call).
ReplyLast(p, text, ok, okLogs) ==
  /\ loc' = [loc EXCEPT ![p].calls = Append(@, "reply"),
                        ![p].sent = Append(@, text),
                        ![p].failed = IF ok THEN @ ELSE Append(@, "reply"),
                        ![p].result = IF ok THEN "ok" ELSE "500"]
  /\ pc' = [pc EXCEPT ![p] = "idle"]
  /\ IF ok
     THEN /\ Emit(okLogs)
          /\ UNCHANGED <<stats, pending>>
     ELSE /\ Emit(CallbackErrorLogs)
          /\ stats' = [stats EXCEPT !.errors = @ + 1]
          /\ pending' = Started("callback")
  /\ UNCHANGED <<response_history, image_cache, slack_url, now,
                 hist_appended, phase>>

\* ------------------------------------------------------------ handle_image
\* Lines 175-184: the history entry of an event.
NewEntry(l, type) ==
  [NoEntry EXCEPT !.ref = l.req, !.id = Some(<<l.user_id, now>>),
                  !.timestamp = now, !.user_id = l.user_id, !.type = type,
                  !.message = l.message]

\* md5(f"{user_id}_{datetime.now().isoformat()}") of save_image_to_cache.
ImageId(l) == <<l.user_id, now>>

\* Lines 168-186.
HandleImage(p) ==
  /\ pc[p] = "handle"
  /\ loc[p].kind = "image"
  /\ stats' = [stats EXCEPT !.image_requests = @ + 1]
  /\ Emit(<<LogEntry("INFO", "image_received", 0)>>)
  /\ loc' = [loc EXCEPT ![p].entry = NewEntry(loc[p], "image")]
  /\ pc' = [pc EXCEPT ![p] = "fetch"]
  /\ UNCHANGED <<response_history, image_cache, slack_url, now, pending,
                 hist_appended, phase>>

\* Where handle_image goes after the fetch try block (lines 189-213).
AfterFetch(ok) == IF ok THEN "encode" ELSE "reply_fetch_failed"

\* Lines 189-210: requests.get of the image, then save_image_to_cache; the
\* except branch up to notify_error_async.
FetchImage(p, ok) ==
  /\ pc[p] = "fetch"
  /\ pc' = [pc EXCEPT ![p] = AfterFetch(ok)]
  /\ IF ok
     THEN /\ Emit(<<LogEntry("INFO", "fetch_ok", 1)>>)
          /\ image_cache' = SaveImageToCache(image_cache, ImageId(loc[p]), loc[p].req)
          /\ loc' = [loc EXCEPT ![p].calls = Append(@, "fetch"),
                                ![p].image_data = Some(loc[p].req),
                                ![p].entry.image_id = Some(ImageId(loc[p]))]
          /\ UNCHANGED <<stats, response_history, hist_appended, pending>>
     ELSE /\ Emit(<<LogEntry("ERROR", "fetch_error", 0)>>)
          /\ stats' = [stats EXCEPT !.errors = @ + 1]
          /\ loc' = [loc EXCEPT ![p].calls = Append(@, "fetch"),
                                ![p].failed = Append(@, "fetch"),
                                ![p].entry.error = Some("fetch_error")]
          /\ HistAppend(loc'[p].entry)
          /\ pending' = Started("fetch")
          /\ UNCHANGED image_cache
  /\ UNCHANGED <<slack_url, now, phase>>

\* ReplyFetchFailed joining the notification thread before it replies.
ReplyFetchFailed_Join(p, ok) ==
  /\ pc[p] = "reply_fetch_failed"
  /\ pending["fetch"] = 0
  /\ ReplyLast(p, FetchFailedText, ok, <<>>)

\* Lines 211-213.
ReplyFetchFailed(p, ok) ==
  /\ pc[p] = "reply_fetch_failed"
  /\ ReplyLast(p, FetchFailedText, ok, <<>>)

\* AfterEncode without the return of line 230.
AfterEncode_NoReturn(ok) == "model"

\* Where handle_image goes after the encode try block (lines 216-230).
AfterEncode(ok) == IF ok THEN "model" ELSE "reply_encode_failed"

\* Lines 216-226: base64.b64encode and its except branch.
EncodeImage(p, ok) ==
  /\ pc[p] = "encode"
  /\ pc' = [pc EXCEPT ![p] = AfterEncode(ok)]
  /\ IF ok
     THEN /\ Emit(<<LogEntry("INFO", "encode_ok", 0)>>)
          /\ loc' = [loc EXCEPT ![p].calls = Append(@, "encode")]
          /\ UNCHANGED <<stats, response_history, hist_appended, pending>>
     ELSE /\ Emit(<<LogEntry("ERROR", "encode_error", 0)>>)
          /\ stats' = [stats EXCEPT !.errors = @ + 1]
          /\ loc' = [loc EXCEPT ![p].calls = Append(@, "encode"),
                                ![p].failed = Append(@, "encode"),
                                ![p].entry.error = Some("encode_error")]
          /\ HistAppend(loc'[p].entry)
          /\ pending' = Started("encode")
  /\ UNCHANGED <<image_cache, slack_url, now, phase>>

\* ReplyEncodeFailed replying the text of the fetch failure.
ReplyEncodeFailed_FetchText(p, ok) ==
  /\ pc[p] = "reply_encode_failed"
  /\ ReplyLast(p, FetchFailedText, ok, <<>>)

\* Lines 228-230.
ReplyEncodeFailed(p, ok) ==
  /\ pc[p] = "reply_encode_failed"
  /\ ReplyLast(p, EncodeFailedText, ok, <<>>)

\* Lines 314-330: the except branch of the model try block, which also
\* encloses the reply of the explanation (lines 308-312).
ExceptModel(p, stage, calls, sent) ==
  /\ Emit(<<LogEntry("ERROR", "gpt_error", 0), LogEntry("ERROR", "traceback", 0)>>)
  /\ stats' = [stats EXCEPT !.errors = @ + 1]
  /\ loc' = [loc EXCEPT ![p].calls = calls,
                        ![p].sent = sent,
                        ![p].failed = Append(@, stage),
                        ![p].entry.error = Some("gpt_error"),
                        ![p].entry.timed = TRUE]
  /\ HistAppend(loc'[p].entry)
  /\ pending' = Started("model")
  /\ pc' = [pc EXCEPT ![p] = "reply_model_failed"]

\* Lines 298-300: the records the length adjustment writes.
TruncationLogs(text) ==
  IF StrLen(text) > LengthLimit
  THEN <<LogEntry("WARNING", "response_truncated", WarnedLength(text))>>
  ELSE <<>>

\* Lines 233-305: the model call; on success strip, log, adjust the length
\* and store the response in the history.
CallModel(p, r) ==
  /\ pc[p] = "model"
  /\ IF r # None
     THEN LET text == Strip(r[1])
              explanation_text == AdjustLength(text)
          IN  /\ Emit(<<LogEntry("INFO", "gpt_ok", StrLen(text))>> \o TruncationLogs(text))
              /\ loc' = [loc EXCEPT ![p].calls = Append(@, "model"),
                                    ![p].content = r,
                                    ![p].explanation_text = Some(explanation_text),
                                    ![p].entry.response = Some(explanation_text),
                                    ![p].entry.timed = TRUE]
              /\ HistAppend(loc'[p].entry)
              /\ pc' = [pc EXCEPT ![p] = "reply"]
              /\ UNCHANGED <<stats, pending>>
     ELSE ExceptModel(p, "model", Append(loc[p].calls, "model"), loc[p].sent)
  /\ UNCHANGED <<image_cache, slack_url, now, phase>>

\* Lines 308-312: the explanation is replied; a raise lands in the except
\* branch of the model try block.
ReplyExplanation(p, ok) ==
  /\ pc[p] = "reply"
  /\ IF ok
     THEN /\ Emit(<<LogEntry("INFO", "reply_done", 0)>>)
          /\ loc' = [loc EXCEPT ![p].calls = Append(@, "reply"),
                                ![p].sent = Append(@, loc[p].explanation_text[1]),
                                ![p].result = "ok"]
          /\ pc' = [pc EXCEPT ![p] = "idle"]
          /\ UNCHANGED <<stats, response_history, hist_appended, pending>>
     ELSE ExceptModel(p, "reply", Append(loc[p].calls, "reply"),
                      Append(loc[p].sent, loc[p].explanation_text[1]))
  /\ UNCHANGED <<image_cache, slack_url, now, phase>>

\* ReplyModelFailed replying the text of the encode failure.
ReplyModelFailed_EncodeText(p, ok) ==
  /\ pc[p] = "reply_model_failed"
  /\ ReplyLast(p, EncodeFailedText, ok, <<>>)

\* Lines 332-345.
ReplyModelFailed(p, ok) ==
  /\ pc[p] = "reply_model_failed"
  /\ ReplyLast(p, ModelFailedText, ok, <<>>)

\* ------------------------------------------------------------- handle_text
HelpWords == {"help"}
TextMessages == {"help", "hello"}

\* Lines 365-399: the reply text of a text message.
TextReply(message) == IF message \in HelpWords THEN HelpText ELSE OtherText

\* Lines 348-399 up to the reply_message call.
HandleText(p) ==
  /\ pc[p] = "handle"
  /\ loc[p].kind = "text"
  /\ stats' = [stats EXCEPT !.text_requests = @ + 1]
  /\ Emit(<<LogEntry("INFO", "text_received", 0)>>)
  /\ loc' = [loc EXCEPT ![p].entry =
               [NewEntry(loc[p], "text") EXCEPT
                  !.response = Some(TextReply(loc[p].message))]]
  /\ HistAppend(loc'[p].entry)
  /\ pc' = [pc EXCEPT ![p] = "reply_text"]
  /\ UNCHANGED <<image_cache, slack_url, now, pending, phase>>

\* Lines 391-395 and 401-404.
ReplyText(p, ok) ==
  /\ pc[p] = "reply_text"
  /\ ReplyLast(p, TextReply(loc[p].message), ok,
               IF loc[p].message \in HelpWords
               THEN <<LogEntry("INFO", "help_sent", 0)>> ELSE <<>>)

\* ------------------------------------------------------ notification thread
\* send_slack_notification (lines 75-97): what it logs.
SlackLogs(postOk) ==
  IF ~slack_url THEN <<LogEntry("WARNING", "slack_not_configured", 0)>>
  ELSE IF postOk THEN <<LogEntry("INFO", "slack_sent", 0)>>
  ELSE <<LogEntry("ERROR", "slack_failed", 0)>>

\* dict update of lines 115-117.
Counted(types, t) ==
  IF t \in DOMAIN types
  THEN [types EXCEPT ![t] = @ + 1]
  ELSE [x \in DOMAIN types \cup {t} |-> IF x = t THEN 1 ELSE types[x]]

\* send_notification (lines 101-124), run by a started thread.
SendNotification(t, postOk) ==
  /\ pending[t] > 0
  /\ slack_url \/ postOk
  /\ pending' = [pending EXCEPT ![t] = @ - 1]
  /\ stats' = [stats EXCEPT !.error_types = Counted(@, t)]
  /\ Emit(SlackLogs(postOk))
  /\ UNCHANGED <<response_history, image_cache, slack_url, now, pc, loc,
                 hist_appended, phase>>

\* --------------------------------------------------------- specifications
RequestKinds == {"image", "text", "badsig"}

Init == Start /\ phase = 0

\* One request at a time, handled by worker w1; every collaborator outcome
\* is free.
Next ==
  \/ \E k \in RequestKinds, u \in Users, m \in TextMessages :
       Callback("w1", k, u, IF k = "text" THEN m ELSE "", MaxRequests)
  \/ InvalidSignature("w1")
  \/ HandleImage("w1")
  \/ \E ok \in BOOLEAN : FetchImage("w1", ok)
  \/ \E ok \in BOOLEAN : ReplyFetchFailed("w1", ok)
  \/ \E ok \in BOOLEAN : EncodeImage("w1", ok)
  \/ \E ok \in BOOLEAN : ReplyEncodeFailed("w1", ok)
  \/ \E r \in ModelResults : CallModel("w1", r)
  \/ \E ok \in BOOLEAN : ReplyExplanation("w1", ok)
  \/ \E ok \in BOOLEAN : ReplyModelFailed("w1", ok)
  \/ HandleText("w1")
  \/ \E ok \in BOOLEAN : ReplyText("w1", ok)
  \/ \E t \in ErrorTypes, ok \in BOOLEAN : SendNotification(t, ok)

Spec == Init /\ [][Next]_vars

\* The long run: LongRequests requests, one at a time, whose kinds and
\* collaborator outcomes follow Scenarios cyclically from an offset chosen
\* at the start, and whose notification threads run as soon as started.
Scenario(kind, user, message, fetch, encode, model, reply, fallback, post) ==
  [kind |-> kind, user |-> user, message |-> message, fetch |-> fetch,
   encode |-> encode, model |-> model, reply |-> reply,
   fallback |-> fallback, post |-> post]

Scenarios ==
  << Scenario("image", "u1", "", TRUE, TRUE, Some(ShortContent), TRUE, TRUE, TRUE),
     Scenario("text", "u2", "help", TRUE, TRUE, None, TRUE, TRUE, TRUE),
     Scenario("image", "u1", "", FALSE, TRUE, None, TRUE, TRUE, FALSE),
     Scenario("image", "u2", "", TRUE, TRUE, Some(LongContent), FALSE, TRUE, TRUE),
     Scenario("badsig", "u1", "", TRUE, TRUE, None, TRUE, TRUE, TRUE),
     Scenario("image", "u1", "", TRUE, FALSE, None, TRUE, TRUE, TRUE),
     Scenario("image", "u2", "", TRUE, TRUE, None, TRUE, FALSE, FALSE),
     Scenario("text", "u1", "hello", TRUE, TRUE, None, FALSE, TRUE, TRUE),
     Scenario("image", "u1", "", TRUE, TRUE, Some(LimitContent), TRUE, TRUE, TRUE),
     Scenario("image", "u2", "", TRUE, TRUE, Some(OverContent), FALSE, FALSE, TRUE),
     Scenario("image", "u1", "", FALSE, TRUE, None, TRUE, FALSE, TRUE),
     Scenario("image", "u1", "", TRUE, FALSE, None, TRUE, FALSE, FALSE),
     Scenario("text", "u2", "hello", TRUE, TRUE, None, TRUE, TRUE, TRUE) >>

\* The scenario of request number n: the cycle from offset phase, or, for
\* the last value of phase, an explained image each time.
Script(n) ==
  IF phase = Len(Scenarios) THEN Scenarios[1]
  ELSE Scenarios[((n + phase) % Len(Scenarios)) + 1]

InitLong == Start /\ phase \in 0 .. Len(Scenarios)

\* The scenario of the request worker w1 is handling.
Cur == Script(loc["w1"].req)

\* No started notification thread is still to run.
Quiet == PendingCount = 0

NextLong ==
  \/ Quiet /\ Callback("w1", Script(now + 1).kind, Script(now + 1).user,
                       Script(now + 1).message, LongRequests)
  \/ Quiet /\ InvalidSignature("w1")
  \/ Quiet /\ HandleImage("w1")
  \/ Quiet /\ FetchImage("w1", Cur.fetch)
  \/ Quiet /\ ReplyFetchFailed("w1", Cur.fallback)
  \/ Quiet /\ EncodeImage("w1", Cur.encode)
  \/ Quiet /\ ReplyEncodeFailed("w1", Cur.fallback)
  \/ Quiet /\ CallModel("w1", Cur.model)
  \/ Quiet /\ ReplyExplanation("w1", Cur.reply)
  \/ Quiet /\ ReplyModelFailed("w1", Cur.fallback)
  \/ Quiet /\ HandleText("w1")
  \/ Quiet /\ ReplyText("w1", Cur.reply)
  \/ \E t \in ErrorTypes : SendNotification(t, ~slack_url \/ Cur.post)

SpecLong == InitLong /\ [][NextLong]_vars

\* ------------------------------------------------------- threaded server
\* app.run (line 612) serves each request on a thread of its own, and no
\* lock guards stats or image_cache. The steps below are the statements of
\* callback and save_image_to_cache at the grain at which the interpreter
\* can switch threads: between the load and the store of an augmented
\* assignment, and between the statements of save_image_to_cache.

\* The requests of the threaded run that may overlap (the last ones).
RacingRequests == 2

\* Each worker serves one user, so image ids differ between workers.
UserOf(p) == IF p = "w1" THEN "u1" ELSE "u2"

\* Line 148, stats['total_requests'] += 1: the load of the old value.
CallbackLoad(p, kind, user, message, max) ==
  /\ pc[p] = "idle"
  /\ now < max
  /\ now' = now + 1
  /\ loc' = [loc EXCEPT ![p] =
               [IdleLocals EXCEPT !.req = now', !.kind = kind,
                                  !.user_id = user, !.message = message,
                                  !.result = "running",
                                  !.loaded = stats.total_requests]]
  /\ pc' = [pc EXCEPT ![p] = "store_total"]
  /\ UNCHANGED <<stats, log_storage, response_history, image_cache,
                 slack_url, pending, log_appended, hist_appended, phase>>

\* Lines 148-152: the store of the incremented value, last_request, and
\* handler.handle is entered.
CallbackStore(p) ==
  /\ pc[p] = "store_total"
  /\ stats' = [stats EXCEPT !.total_requests = loc[p].loaded + 1,
                            !.last_request = Some(loc[p].req)]
  /\ pc' = [pc EXCEPT ![p] = "handle"]
  /\ UNCHANGED <<log_storage, response_history, image_cache, slack_url, now,
                 loc, pending, log_appended, hist_appended, phase>>

\* Lines 191-199 and 133-134: the image is downloaded and logged, and
\* save_image_to_cache stores it under its id.
CachePutImage(p) ==
  /\ pc[p] = "fetch"
  /\ Emit(<<LogEntry("INFO", "fetch_ok", 1)>>)
  /\ image_cache' = CachePut(image_cache, ImageId(loc[p]), loc[p].req)
  /\ loc' = [loc EXCEPT ![p].calls = Append(@, "fetch"),
                        ![p].image_data = Some(loc[p].req),
                        ![p].entry.image_id = Some(ImageId(loc[p]))]
  /\ pc' = [pc EXCEPT ![p] = "cache_check"]
  /\ UNCHANGED <<stats, response_history, slack_url, now, pending,
                 hist_appended, phase>>

\* Line 137, if len(image_cache) > 50; otherwise lines 141 and 200: the id
\* is returned and stored in history_entry.
CacheCheckSize(p) ==
  /\ pc[p] = "cache_check"
  /\ pc' = [pc EXCEPT ![p] =
              IF Len(image_cache) > ImageCacheMax THEN "cache_pick"
              ELSE "encode"]
  /\ UNCHANGED <<stats, log_storage, response_history, image_cache,
                 slack_url, now, loc, pending, log_appended, hist_appended,
                 phase>>

\* Line 138: oldest_key = next(iter(image_cache)).
CachePickOldest(p) ==
  /\ pc[p] = "cache_pick"
  /\ image_cache # <<>>
  /\ loc' = [loc EXCEPT ![p].oldest_key = Some(image_cache[1].key)]
  /\ pc' = [pc EXCEPT ![p] = "cache_del"]
  /\ UNCHANGED <<stats, log_storage, response_history, image_cache,
                 slack_url, now, pending, log_appended, hist_appended, phase>>

\* image_cache without the key k.
CacheWithout(cache, k) ==
  LET keep == {i \in DOMAIN cache : cache[i].key # k}
      Nth(n) == CHOOSE i \in keep : Cardinality({j \in keep : j < i}) = n - 1
  IN  [n \in 1 .. Cardinality(keep) |-> cache[Nth(n)]]

\* Line 139: del image_cache[oldest_key]. A key another thread has deleted
\* raises KeyError inside the fetch try block, so the except branch of
\* lines 202-210 runs.
CacheDelOldest(p) ==
  /\ pc[p] = "cache_del"
  /\ IF loc[p].oldest_key[1] \in CacheKeys(image_cache)
     THEN /\ image_cache' = CacheWithout(image_cache, loc[p].oldest_key[1])
          /\ pc' = [pc EXCEPT ![p] = "encode"]
          /\ UNCHANGED <<stats, log_storage, response_history, loc, pending,
                         log_appended, hist_appended>>
     ELSE /\ Emit(<<LogEntry("ERROR", "fetch_error", 0)>>)
          /\ stats' = [stats EXCEPT !.errors = @ + 1]
          /\ loc' = [loc EXCEPT ![p].failed = Append(@, "fetch"),
                                ![p].entry.error = Some("fetch_error")]
          /\ HistAppend(loc'[p].entry)
          /\ pending' = Started("fetch")
          /\ pc' = [pc EXCEPT ![p] = "reply_fetch_failed"]
          /\ UNCHANGED image_cache
  /\ UNCHANGED <<slack_url, now, phase>>

\* Two request threads. Requests arrive one at a time until the cache is
\* full; the following ones may overlap. Every event is an image whose
\* download, encoding, model call and replies succeed.
NextThreads ==
  \/ \E p \in Workers :
       /\ p = "w1" \/ Len(image_cache) >= ImageCacheMax
       /\ CallbackLoad(p, "image", UserOf(p), "",
                       ImageCacheMax + RacingRequests)
  \/ \E p \in Workers : CallbackStore(p)
  \/ \E p \in Workers : HandleImage(p)
  \/ \E p \in Workers : CachePutImage(p)
  \/ \E p \in Workers : CacheCheckSize(p)
  \/ \E p \in Workers : CachePickOldest(p)
  \/ \E p \in Workers : CacheDelOldest(p)
  \/ \E p \in Workers : EncodeImage(p, TRUE)
  \/ \E p \in Workers : CallModel(p, Some(ShortContent))
  \/ \E p \in Workers : ReplyExplanation(p, TRUE)
  \/ \E p \in Workers : ReplyFetchFailed(p, TRUE)
  \/ SendNotification("fetch", TRUE)

SpecThreads == Init /\ [][NextThreads]_vars

\* ------------------------------------------------------------- properties
\* x is an element of the sequence s.
InSeq(x, s) == \E i \in DOMAIN s : s[i] = x

\* s[k:]
Drop(s, k) ==
  IF k <= 0 THEN s
  ELSE LET m == WholeRuns(s, k)
       IN  IF m = Len(s) THEN <<>>
           ELSE Run(s[m + 1].c, StrLen(SubSeq(s, 1, m + 1)) - k)
                  \o SubSeq(s, m + 2, Len(s))

\* The last k items of the sequence q.
LastN(q, k) == IF Len(q) <= k THEN q ELSE SubSeq(q, Len(q) - k + 1, Len(q))

\* The entries of response_history that are the history_entry of worker p.
OwnEntries(p) ==
  {i \in DOMAIN response_history : response_history[i].ref = loc[p].req}

\* Worker p handles an image event whose model call returned content.
Explained(p) == loc[p].kind = "image" /\ loc[p].content # None

\* The explanation of worker p's event: the stripped content.
Explanation(p) == Strip(loc[p].content[1])

\* C1: when fetch, encode and the model call of an image event succeed and
\* the stripped explanation has at most 5000 characters, the text handed to
\* the reply channel for it (line 308) and the response stored in the
\* history entry are exactly that explanation.
C1_ShortExplanationUnchanged ==
  \A p \in Workers :
    (Explained(p) /\ StrLen(Explanation(p)) <= LengthLimit) =>
      /\ loc[p].entry.response = Some(Explanation(p))
      /\ OwnEntries(p) # {}
      /\ \A i \in OwnEntries(p) :
           response_history[i].response = Some(Explanation(p))
      /\ pc[p] # "reply" => /\ loc[p].sent # <<>>
                            /\ loc[p].sent[1] = Explanation(p)
      /\ (loc[p].result = "ok" /\ loc[p].failed = <<>>) =>
           loc[p].sent = <<Explanation(p)>>

C1_Witness ==
  \E p \in Workers :
    /\ Explained(p)
    /\ StrLen(Explanation(p)) = LengthLimit
    /\ loc[p].content[1] # Explanation(p)
    /\ loc[p].result = "ok"
    /\ loc[p].failed = <<>>
    /\ loc[p].sent = <<Explanation(p)>>

\* C2: an explanation of more than 5000 characters is delivered as its first
\* 4900 characters followed by the truncation suffix: 4900 + len(suffix)
\* characters, whatever the original length.
C2_LongExplanationTruncated ==
  \A p \in Workers :
    (Explained(p) /\ StrLen(Explanation(p)) > LengthLimit) =>
      /\ pc[p] # "reply" => loc[p].sent # <<>>
      /\ loc[p].sent # <<>> =>
           /\ StrLen(loc[p].sent[1]) = TruncatedKeepLength + StrLen(TruncationSuffix)
           /\ Prefix(loc[p].sent[1], TruncatedKeepLength)
                = Prefix(Explanation(p), TruncatedKeepLength)
           /\ Drop(loc[p].sent[1], TruncatedKeepLength) = TruncationSuffix
           /\ loc[p].entry.response = Some(loc[p].sent[1])

C2_Witness ==
  \E p \in Workers :
    /\ Explained(p)
    /\ StrLen(Explanation(p)) = LengthLimit + 1000
    /\ loc[p].result = "ok"
    /\ StrLen(loc[p].sent[1]) = TruncatedKeepLength + StrLen(TruncationSuffix)
    /\ Explanation(p) # Prefix(Explanation(p), TruncatedKeepLength)

\* The truncation warnings written for worker p's event.
TruncationWarnings(p) ==
  {i \in DOMAIN log_appended :
     /\ log_appended[i].message = "response_truncated"
     /\ log_appended[i].timestamp = loc[p].req}

\* C3: the original length written by the truncation warning is the length
\* of the explanation before truncation.
C3_WarningRecordsOriginalLength ==
  \A p \in Workers :
    Explained(p) =>
      \A i \in TruncationWarnings(p) :
        log_appended[i].value = StrLen(Explanation(p))

\* C4: when the model call of an image event fails, the only text handed to
\* the reply channel for it is the model-failure template, and no
\* explanation is stored as the response of its history entry.
C4_ModelFailureTemplateOnly ==
  \A p \in Workers :
    (loc[p].kind = "image" /\ InSeq("model", loc[p].failed)) =>
      /\ \A i \in DOMAIN loc[p].sent : loc[p].sent[i] = ModelFailedText
      /\ pc[p] = "idle" => loc[p].sent = <<ModelFailedText>>
      /\ loc[p].entry.response = None
      /\ OwnEntries(p) # {}
      /\ \A i \in OwnEntries(p) : response_history[i].response = None

C4_Witness ==
  \E p \in Workers :
    /\ loc[p].kind = "image"
    /\ InSeq("model", loc[p].failed)
    /\ loc[p].result = "ok"
    /\ loc[p].sent = <<ModelFailedText>>

\* The fixed template of a failing stage.
Template(stage) ==
  CASE stage = "fetch" -> FetchFailedText
    [] stage = "encode" -> EncodeFailedText
    [] stage = "model" -> ModelFailedText

UpstreamStages == {"fetch", "encode", "model"}

\* C5: the fallback text is fixed by the first failing stage (fetch, encode
\* or model call): the three templates are pairwise distinct and the one of
\* that stage is what is sent, as it is.
C5_FallbackByFirstFailingStage ==
  /\ Cardinality({Template(st) : st \in UpstreamStages}) = 3
  /\ \A p \in Workers :
       (/\ loc[p].kind = "image"
        /\ loc[p].failed # <<>>
        /\ loc[p].failed[1] \in UpstreamStages) =>
         /\ \A i \in DOMAIN loc[p].sent :
              loc[p].sent[i] = Template(loc[p].failed[1])
         /\ Len(loc[p].sent) <= 1
         /\ pc[p] = "idle" => Len(loc[p].sent) = 1

C5_Witness ==
  \E p \in Workers :
    /\ loc[p].kind = "image"
    /\ loc[p].failed = <<"encode">>
    /\ loc[p].result = "ok"
    /\ loc[p].sent = <<EncodeFailedText>>

\* The fetch, encode and model calls worker p has made, in order.
RECURSIVE StageCalls(_)
StageCalls(calls) ==
  IF calls = <<>> THEN <<>>
  ELSE IF Head(calls) \in UpstreamStages
       THEN <<Head(calls)>> \o StageCalls(Tail(calls))
       ELSE StageCalls(Tail(calls))

\* C6: within one image event the stages run at most once each, in the
\* order fetch, encode, model call, and no stage runs after a stage failed.
C6_StagesOnceInOrder ==
  \A p \in Workers :
    loc[p].kind = "image" =>
      LET st == StageCalls(loc[p].calls)
      IN  /\ st = SubSeq(<<"fetch", "encode", "model">>, 1, Len(st))
          /\ \A i \in DOMAIN loc[p].calls :
               loc[p].calls[i] \in UpstreamStages => i <= Len(st)
          /\ InSeq("fetch", loc[p].failed) => st = <<"fetch">>
          /\ InSeq("encode", loc[p].failed) => st = <<"fetch", "encode">>
          /\ pc[p] \in {"reply_fetch_failed", "reply_encode_failed",
                        "reply_model_failed"} => loc[p].failed # <<>>

C6_Witness ==
  \E p \in Workers :
    /\ loc[p].kind = "image"
    /\ loc[p].failed = <<"encode">>
    /\ pc[p] = "idle"
    /\ loc[p].calls = <<"fetch", "encode", "reply">>

\* C7: handle_image returns normally whatever the fetch, encode, model and
\* reply calls do, so the webhook never answers 500 for an image event.
C7_ImageHandlerNeverRaises ==
  \A p \in Workers : loc[p].kind = "image" => loc[p].result # "500"

\* C8: the reply channel is invoked at most once for every event.
C8_ReplyAtMostOnce ==
  \A p \in Workers : Len(loc[p].sent) <= 1

\* C9: every text handle_image hands to the reply channel has at most 5000
\* characters.
C9_RepliesWithinLimit ==
  \A p \in Workers :
    loc[p].kind = "image" =>
      \A i \in DOMAIN loc[p].sent : StrLen(loc[p].sent[i]) <= LengthLimit

C9_Witness ==
  \E p \in Workers :
    /\ Explained(p)
    /\ StrLen(Explanation(p)) > LengthLimit
    /\ Len(loc[p].sent) = 2
    /\ StrLen(loc[p].sent[1]) > TruncatedKeepLength
    /\ loc[p].sent[2] = ModelFailedText

\* C10: response_history holds at most 50 entries and log_storage at most
\* 100, and each is the most recently appended entries in insertion order
\* (so an append to a full buffer dropped exactly the oldest).
C10_BuffersKeepMostRecent ==
  /\ Len(response_history) <= HistoryMaxLen
  /\ Len(log_storage) <= LogMaxLen
  /\ response_history = LastN(hist_appended, HistoryMaxLen)
  /\ log_storage = LastN(log_appended, LogMaxLen)

C10_Witness ==
  /\ Len(hist_appended) > HistoryMaxLen + 1
  /\ Len(log_appended) > LogMaxLen + 1
  /\ Len(response_history) = HistoryMaxLen
  /\ Len(log_storage) = LogMaxLen
  /\ response_history[1] # hist_appended[1]

\* The started notification threads that have run: lines 115-117 count each.
NotificationsRun ==
  LET types == stats.error_types
      Count(t) == IF t \in DOMAIN types THEN types[t] ELSE 0
  IN  Count("signature") + Count("callback") + Count("fetch")
        + Count("encode") + Count("model")

FallbackReplies ==
  {"reply_fetch_failed", "reply_encode_failed", "reply_model_failed"}

\* C12: error notification is fire-and-forget. Every counted error has a
\* notification thread started for it, and the fallback reply of a failure
\* path can be sent whatever the started threads have done: it never waits
\* for one to run.
C12_NotificationFireAndForget ==
  /\ PendingCount + NotificationsRun = stats.errors
  /\ \A p \in Workers :
       /\ pc[p] \in FallbackReplies => PendingCount + NotificationsRun > 0
       /\ pc[p] = "reply_fetch_failed" => ENABLED ReplyFetchFailed(p, TRUE)
       /\ pc[p] = "reply_encode_failed" => ENABLED ReplyEncodeFailed(p, TRUE)
       /\ pc[p] = "reply_model_failed" => ENABLED ReplyModelFailed(p, TRUE)

\* The fallback reply was sent and the handler returned while the
\* notification thread of the failure had not run.
C12_Witness ==
  \E p \in Workers :
    /\ loc[p].kind = "image"
    /\ loc[p].failed = <<"fetch">>
    /\ loc[p].result = "ok"
    /\ loc[p].sent = <<FetchFailedText>>
    /\ pending["fetch"] = 1
    /\ NotificationsRun = 0

\* The images save_image_to_cache was called for, counted by its callers' log.
ImagesSaved ==
  Cardinality({i \in DOMAIN log_appended :
                 log_appended[i].message = "fetch_ok"})

\* C14: with events processed one at a time, every save_image_to_cache
\* leaves at most 50 images; a save into a full cache removes exactly the
\* earliest inserted image, and the image just saved is kept, as the last.
C14_CacheBoundedEvictsOldest ==
  [][image_cache' # image_cache =>
       \E p \in Workers :
         LET saved == [key |-> ImageId(loc[p]), value |-> loc[p].req]
         IN  /\ pc[p] = "fetch"
             /\ Len(image_cache') <= ImageCacheMax
             /\ image_cache' =
                  IF Len(image_cache) < ImageCacheMax
                  THEN Append(image_cache, saved)
                  ELSE Append(Tail(image_cache), saved)]_vars

\* More than 50 images were saved: the cache is full and has evicted.
C14_Witness ==
  /\ ImagesSaved > ImageCacheMax + 1
  /\ Len(image_cache) = ImageCacheMax
  /\ image_cache[1].value > 1

\* The appends to response_history made for the event of worker p.
Appends(p) ==
  {i \in DOMAIN hist_appended : hist_appended[i].ref = loc[p].req}

\* C16: every image or text event whose handler returned has appended exactly
\* one entry to response_history.
C16_OneHistoryEntryPerEvent ==
  \A p \in Workers :
    (loc[p].kind \in {"image", "text"} /\ loc[p].result = "ok") =>
      Cardinality(Appends(p)) = 1

\* C17: every image entry of response_history records exactly one outcome:
\* a response and no error, or an error and no response.
C17_ExactlyOneOutcome ==
  \A i \in DOMAIN response_history :
    response_history[i].type = "image" =>
      (response_history[i].response # None) #
        (response_history[i].error # None)

\* The image ids the entries of response_history refer to.
HistoryImages ==
  {response_history[i].image_id[1] :
     i \in {j \in DOMAIN response_history :
              response_history[j].image_id # None}}

\* C18: with events processed one at a time, whenever no event is in flight
\* every history entry with an image_id refers to an image in image_cache.
C18_HistoryImagesCached ==
  (\A p \in Workers : pc[p] = "idle") =>
    HistoryImages \subseteq CacheKeys(image_cache)

\* Both buffers are full, the cache has evicted, and the history refers to
\* every image the cache still holds.
C18_Witness ==
  /\ \A p \in Workers : pc[p] = "idle"
  /\ ImagesSaved > ImageCacheMax + 1
  /\ Len(response_history) = HistoryMaxLen
  /\ HistoryImages = CacheKeys(image_cache)
  /\ Cardinality(HistoryImages) = ImageCacheMax

\* C19: with one event per request, handled one at a time, a request counts
\* at most one error, so stats['errors'] never exceeds
\* stats['total_requests'].
C19_ErrorsAtMostRequests == stats.errors <= stats.total_requests

\* The log records with one of the messages.
Logged(messages) ==
  Cardinality({i \in DOMAIN log_appended :
                 log_appended[i].message \in messages})

\* C11: no update of the counters is lost: when all N received requests
\* have completed, stats['total_requests'] is N, image_requests plus
\* text_requests is the number of handled events, and the values of
\* stats['error_types'] sum to the number of notifications that ran.
C11_NoLostUpdate ==
  (\A p \in Workers : pc[p] = "idle") =>
    /\ stats.total_requests = now
    /\ stats.image_requests + stats.text_requests
         = Logged({"image_received", "text_received"})
    /\ NotificationsRun
         = Logged({"slack_not_configured", "slack_sent", "slack_failed"})

\* save_image_to_cache is running on the thread of worker p.
Saving(p) == pc[p] \in {"cache_check", "cache_pick", "cache_del"}

\* C15: with image events handled concurrently, an event whose download
\* succeeded is never answered with the fetch-failure text nor recorded as a
\* fetch error, and when no save is running the cache holds at most 50
\* images.
C15_EvictionNeverFailsAnother ==
  /\ \A p \in Workers :
       loc[p].image_data # None =>
         /\ ~InSeq("fetch", loc[p].failed)
         /\ ~InSeq(FetchFailedText, loc[p].sent)
         /\ loc[p].entry.error # Some("fetch_error")
  /\ (\A p \in Workers : ~Saving(p)) => Len(image_cache) <= ImageCacheMax
====
